---- MODULE Spec2Model ----
(***************************************************************************)
(* Conversation / group synchronisation and event streaming of the         *)
(* xmtp-react-native SDK: the Conversations facade (stream starts, stream  *)
(* cancels, lists, the shared `known` map, the `subscriptions` registry),  *)
(* Group.streamMessages, and Group.consentState / Group.updateConsent.     *)
(* The native module (XMTPModule / XMTP) is the Gateway: its calls and the *)
(* events it pushes through the process-wide emitter are the environment.  *)
(***************************************************************************)
EXTENDS Integers, Sequences, FiniteSets, Bags, TLC

\* ------------------------------------------------------------------ bounds
MaxStarts == 2     \* stream starts (addListener calls) in one run
MaxEvents == 2     \* events the Gateway pushes in one run
MaxCancels == 2    \* cancel operations (methods and handles) in one run
MaxLists == 1      \* completed list calls in one run
MaxConsentOps == 4 \* consent operations (updates, fetches, remote writes) in one run
MaxIndependentCancels == 1 \* cancel operations in one run of two clients
MaxInflight == 2    \* callback invocations that suspend on an asynchronous call in one run
MaxInflightStarts == 1  \* stream starts in one run with suspended callbacks
MaxInflightCancels == 1 \* cancel operations in one run with suspended callbacks
MaxGroupMessages == 1 \* messages a group holds when it is encoded
MaxUiConsentOps == 1  \* consent updates made before the list item is rendered
MaxThrows == 1     \* callback invocations that throw in one run
MaxMsgOps == 3     \* send / prepare / publish / process / welcome calls in one run

\* ------------------------------------------------------------ the universe
Clients == {"A", "B"}

\* client.inboxId and the installation id a Group object is built with
InboxIdOf == [a \in Clients |-> IF a = "A" THEN "inboxA" ELSE "inboxB"]
InstallationIdOf == [a \in Clients |-> IF a = "A" THEN "instA" ELSE "instB"]

\* conversation snapshots as the Gateway hands them over: id, topic, version tag
Convs ==
  { [id |-> "g1", topic |-> "tg1", version |-> "GROUP"],
    [id |-> "d1", topic |-> "td1", version |-> "DM"] }

GroupConvs == {c \in Convs : c.version = "GROUP"}

\* message snapshots: message id and the conversation it belongs to
Msgs == { [id |-> "m1", conv |-> "g1"], [id |-> "m2", conv |-> "d1"] }

\* the event names of EventTypes used by the listeners
EvConversation == "Conversation"
EvConversationContainer == "ConversationContainer"
EvGroup == "Group"
EvConversationV3 == "ConversationV3"
EvMessage == "Message"
EvAllGroupMessage == "AllGroupMessage"
EvAllConversationMessages == "AllConversationMessages"
EvConversationMessage == "ConversationMessage"

ConversationEvents ==
  {EvConversation, EvConversationContainer, EvGroup, EvConversationV3}
MessageEvents == {EvMessage, EvAllGroupMessage, EvAllConversationMessages}
FacadeEvents == ConversationEvents \cup MessageEvents
EventNames == FacadeEvents \cup {EvConversationMessage}

\* Group objects: the installation id they were constructed with and their id
Groups ==
  { [clientInstallationId |-> InstallationIdOf[a], id |-> c.id] :
      a \in Clients, c \in GroupConvs }

OwnerOf(g) == CHOOSE a \in Clients : InstallationIdOf[a] = g.clientInstallationId

\* -------------------------------------------------------------- the state
VARIABLES
  starts,         \* every listener ever added to the emitter, in order; a lid is an index
                  \* (with each: the cancelled starts of its client and category it follows)
  active,         \* the lids currently registered at the emitter
  subscriptions,  \* Conversations.subscriptions: per client, event name -> lid (0: no entry)
  known,          \* this.known of Conversations: per client, the keys set to true (the
                  \* class writes and reads the map without declaring it; it starts empty)
  gwSubs,         \* the subscriptions in force at the Gateway
  pending,        \* Group.streamMessages calls suspended at `await subscribeToMessages`
  budget,         \* how many more starts, events, cancels, lists, consent calls this run takes
  delivered,      \* bag of <<lid, id>>: callback of listener lid invoked with entity id
  arrived,        \* bag of <<client, event name, id>>: events dispatched to a listener of the client
  unsubCalls,     \* bag of Gateway unsubscribe calls issued
  cancelled,      \* lids whose cancel (method or handle) has returned
  listed,         \* per client and list method, the ids the completed calls returned
  last,           \* the most recent operation: what it was and what it did
  gwConsent,      \* the Gateway's consent state per installation and conversation id
  lastWrite,      \* per consent key, the last accepted write: who made it, what was asked
  consentResult,  \* the most recent consent operation and what its caller observed
  suspended,      \* listener runs suspended at an await that precedes their callback call
  running,        \* callback invocations in flight: started, suspended on an asynchronous
                  \* call of their own, not yet finished
  gwStaged,       \* the Gateway's staged (prepared, unpublished) messages per conversation
  gwSent,         \* bag of <<conversation key, message id>>: transmissions by the Gateway
  encodeArgs,     \* the group and the options handed to GroupWrapper.encodeToObj
  encoded,        \* the map encodeToObj returned, once it has run
  jsonArg,        \* the text handed to conversationParamsFromJson
  parsed,         \* the options conversationParamsFromJson returned, once it has run
  unsubPending,   \* unsubscribeFromMessages calls a handle has issued and the Gateway
                  \* has not served yet, each with the lid of the handle's listener
  ui,             \* per mounted GroupListItem: where its mount effect and its denyGroup
                  \* stand, the consent values they hold, the consentState displayed
  opResult        \* the most recent messaging operation: its Gateway calls and its outcome

streamVars ==
  << starts, active, subscriptions, known, gwSubs, pending, delivered, arrived,
     unsubCalls, cancelled, listed, last, suspended, running >>
consentVars == << gwConsent, lastWrite, consentResult >>
msgVars == << gwStaged, gwSent, opResult >>
wrapVars == << encodeArgs, encoded, jsonArg, parsed >>
auxVars == << wrapVars, ui, unsubPending >>
vars == << streamVars, consentVars, msgVars, auxVars, budget >>

NoLast ==
  [ op |-> "none", client |-> "none", cat |-> "none", lid |-> 0, id |-> "none",
    invoked |-> {}, sub |-> {}, unsub |-> {}, started |-> {}, threw |-> {},
    unhandled |-> {}, passed |-> {}, variant |-> "none" ]

ListMethods == {"listGroups", "listAll", "listConversations"}


\* ------------------------------------------------------------ the Gateway
\* one subscription at the Gateway: the subscribe call's name (subscribeToX /
\* unsubscribeFromX), the inbox or installation id given, the conversation id given
GwSub(api, who, conv) == [api |-> api, who |-> who, conv |-> conv]

\* the event name the native module emits for each of its subscriptions
ApiOfEvent(cat) ==
  CASE cat = EvConversation -> "Conversations"
    [] cat = EvConversationContainer -> "All"
    [] cat = EvGroup -> "Groups"
    [] cat = EvConversationV3 -> "V3Conversations"
    [] cat = EvMessage -> "AllMessages"
    [] cat = EvAllGroupMessage -> "AllGroupMessages"
    [] cat = EvAllConversationMessages -> "AllConversationMessages"
    [] cat = EvConversationMessage -> "Messages"

\* the payloads the Gateway can push under each event name
PayloadsOf(cat) ==
  CASE cat = EvGroup -> GroupConvs
    [] cat \in ConversationEvents \ {EvGroup} -> Convs
    [] cat \in {EvAllGroupMessage, EvConversationMessage} ->
         {m \in Msgs : \E c \in GroupConvs : c.id = m.conv}
    [] OTHER -> Msgs

\* --------------------------------------------- the facade's calls, by method
\* the subscribeToX call each start method issues for the event name it listens to
SubscribeApi(cat) ==
  CASE cat = EvConversation -> "Conversations"
    [] cat = EvConversationContainer -> "All"
    [] cat = EvGroup -> "Groups"
    [] cat = EvConversationV3 -> "V3Conversations"
    [] cat = EvMessage -> "AllMessages"
    [] cat = EvAllGroupMessage -> "AllGroupMessages"
    [] cat = EvAllConversationMessages -> "AllConversationMessages"
    [] cat = EvConversationMessage -> "Messages"

\* the start methods that store their subscription in this.subscriptions
Registers(cat) ==
  cat \in {EvConversation, EvGroup, EvMessage, EvAllGroupMessage, EvAllConversationMessages}

\* the start methods that return a cancellation handle
ReturnsHandle(cat) ==
  cat \in {EvGroup, EvConversationV3, EvConversationContainer, EvConversationMessage}

\* the cancelX methods: the registry entry each one looks up
CancelMethodEvents ==
  {EvConversation, EvGroup, EvConversationV3, EvMessage, EvAllGroupMessage,
   EvAllConversationMessages}

\* the unsubscribeFromX call each cancelX method issues
MethodUnsubscribeApi(cat) ==
  CASE cat = EvConversation -> "Conversations"
    [] cat = EvGroup -> "Groups"
    [] cat = EvConversationV3 -> "V3Conversations"
    [] cat = EvMessage -> "AllMessages"
    [] cat = EvAllGroupMessage -> "AllGroupMessages"
    [] cat = EvAllConversationMessages -> "AllConversationMessages"

\* the unsubscribeFromX call the handle returned by each start method issues;
\* the handle of streamAll calls this.cancelStream()
HandleUnsubscribeApi(cat) ==
  CASE cat = EvGroup -> "Groups"
    [] cat = EvConversationV3 -> "V3Conversations"
    [] cat = EvConversationContainer -> MethodUnsubscribeApi(EvConversation)
    [] cat = EvConversationMessage -> "Messages"

\* ------------------------------------------------------------ the listeners
\* the key a listener records in (and, where it checks, looks up in) this.known
KeyOf(cat, payload) ==
  IF cat = EvGroup THEN payload.id
  ELSE IF cat \in ConversationEvents THEN payload.topic
  ELSE payload.id

\* the listeners that return early when this.known already holds the key
ChecksKnown(cat) ==
  cat \in {EvConversation, EvConversationContainer, EvMessage, EvAllGroupMessage,
           EvAllConversationMessages}

\* mutant of AddressedTo: the listener does not test whom the event is for
AddressedToAnyone(l, ev) == TRUE

\* the first test of every listener: the event's inboxId against client.inboxId
\* (Group.streamMessages: installationId against clientInstallationId)
AddressedTo(l, ev) ==
  IF starts[l].cat = EvConversationMessage
  THEN ev.to = InstallationIdOf[starts[l].client]
  ELSE ev.to = InboxIdOf[starts[l].client]

\* mutant of ForThisGroup: the listener does not test the conversation id
ForAnyGroup(l, ev) == TRUE

\* the second test of the Group.streamMessages listener: the event's
\* conversationId against this.id
ForThisGroup(l, ev) == ev.conv = starts[l].conv

\* the entity constructed and handed to the callback, if any: streamConversations
\* calls back for the GROUP and DM tags only, the others for every event that passed
CallsBack(cat, payload) ==
  IF cat = EvConversationV3 THEN payload.version \in {"GROUP", "DM"} ELSE TRUE

\* the class of the entity a listener constructs for its callback: the listeners
\* of streamConversations and streamAll choose it by the version tag (streamAll
\* takes every tag but GROUP to its else branch), the others have one class
EntityVariant(cat, payload) ==
  CASE cat = EvConversationV3 ->
         IF payload.version = "GROUP" THEN "Group"
         ELSE IF payload.version = "DM" THEN "Dm" ELSE "none"
    [] cat = EvConversationContainer ->
         IF payload.version = "GROUP" THEN "Group" ELSE "Conversation"
    [] cat = EvGroup -> "Group"
    [] cat = EvConversation -> "Conversation"
    [] OTHER -> "DecodedMessage"

\* whether a listener awaits anything between its checks and its callback call:
\* none does, the call is the first awaited expression
AwaitsBeforeCallbackAlways(cat) == TRUE

AwaitsBeforeCallback(cat) == FALSE

\* mutant of RecordsBeforeCallback: the key is recorded when the callback has returned
RecordsAfterCallback(cat) == FALSE

\* whether a listener writes this.known[key] before it calls the callback: every
\* listener of Conversations does, in the statement that follows the known test
RecordsBeforeCallback(cat) == TRUE

\* mutant of QueuesBehindRunning: a listener waits for its earlier invocation
QueuesBehindRunningAlways(cat) == TRUE

\* whether a listener run waits for an earlier callback invocation of the same
\* listener to finish before it calls the callback: none does, and the emitter
\* does not await the listeners
QueuesBehindRunning(cat) == FALSE

\* whether a listener wraps its callback call in try / catch: none does
CatchesCallbackFailure(cat) == FALSE

\* the position of an event in the order in which the Gateway emits the events of a run
EventNo == MaxEvents - budget.events

\* mutant of Listener: the known map is one map for all clients of the process
ListenerSharedKnown(l, ev, kn) ==
  LET a == starts[l].client
      cat == starts[l].cat
      key == KeyOf(cat, ev.payload)
  IN  IF ~AddressedTo(l, ev) THEN [known |-> kn, invoke |-> FALSE]
      ELSE IF cat = EvConversationMessage
      THEN [known |-> kn, invoke |-> ForThisGroup(l, ev)]
      ELSE IF ChecksKnown(cat) /\ key \in UNION {kn[c] : c \in Clients}
      THEN [known |-> kn, invoke |-> FALSE]
      ELSE [known |-> [kn EXCEPT ![a] = @ \cup {key}],
            invoke |-> CallsBack(cat, ev.payload)]

\* one listener run on one event, up to the point where the callback is invoked:
\* the known map it leaves and whether it invoked its callback
Listener(l, ev, kn) ==
  LET a == starts[l].client
      cat == starts[l].cat
      key == KeyOf(cat, ev.payload)
  IN  IF ~AddressedTo(l, ev) THEN [known |-> kn, invoke |-> FALSE]
      ELSE IF cat = EvConversationMessage
      THEN [known |-> kn, invoke |-> ForThisGroup(l, ev)]
      ELSE IF ChecksKnown(cat) /\ key \in kn[a] THEN [known |-> kn, invoke |-> FALSE]
      ELSE [known |-> IF RecordsBeforeCallback(cat) THEN [kn EXCEPT ![a] = @ \cup {key}]
                      ELSE kn,
            invoke |-> CallsBack(cat, ev.payload)]

RECURSIVE SortedSeq(_)
SortedSeq(S) ==
  IF S = {} THEN << >>
  ELSE LET m == CHOOSE x \in S : \A y \in S : x <= y
       IN  << m >> \o SortedSeq(S \ {m})

\* emitter.emit: the registered listeners of the event name run one after the
\* other, in the order they were added
RECURSIVE Dispatch(_, _, _)
Dispatch(ls, ev, st) ==
  IF ls = << >> THEN st
  ELSE LET r == Listener(Head(ls), ev, st.known)
       IN  Dispatch(Tail(ls), ev,
             [known |-> r.known,
              invoked |-> IF r.invoke THEN st.invoked \cup {Head(ls)} ELSE st.invoked])


\* ----------------------------------------------------------------- Init
ConsentStates == {"allowed", "denied", "unknown"}
\* the Gateway keeps one consent state per installation and conversation id
ConsentKeys == {<< g.clientInstallationId, g.id >> : g \in Groups}
NoWrite == [by |-> "none", target |-> "none"]
\* op, key, target: the call; gwOk: whether the Gateway call it made succeeded;
\* ok: whether the returned promise resolved; value: what it resolved with;
\* writes, fetches: the Gateway consent writes and reads the call issued;
\* prior: for updateConsent, the Gateway's state for the key when the call was made;
\* for consentState, the prior of the failed updateConsent of the same key that it
\* directly follows, if it follows one
NoConsentResult ==
  [ op |-> "none", key |-> << >>, target |-> "none", gwOk |-> TRUE, ok |-> TRUE,
    value |-> "none", writes |-> 0, fetches |-> 0, prior |-> "none" ]

\* the operations a run still takes; no callback throws and no messaging
\* operation is made unless the specification grants them
Budget(s, e, c, l, k) ==
  [ starts |-> s, events |-> e, cancels |-> c, lists |-> l, consent |-> k,
    throws |-> 0, ops |-> 0, suspends |-> 0 ]

\* op, key, contentType, content: the call; calls: the Gateway calls it issued, in order;
\* gwOk: whether the Gateway call succeeded; outcome: how the returned promise
\* settled; value: what it resolved with; staged: the conversation's staged
\* messages when the call was made; retry: the call directly follows a failed
\* publishPreparedMessages of the same group
NoOpResult ==
  [ op |-> "none", key |-> << >>, contentType |-> "none", calls |-> << >>,
    gwOk |-> TRUE, outcome |-> "none", value |-> 0, staged |-> {}, retry |-> FALSE,
    content |-> [kind |-> "none", text |-> ""] ]

\* the options of ConversationParamsWrapper, in the order of its constructor
OptionalFields ==
  {"isActive", "addedByInboxId", "name", "imageUrlSquare", "description", "consentState"}
ParamFlags == OptionalFields \cup {"lastMessage"}

\* ConversationParamsWrapper(): every flag true but lastMessage
DefaultParams == [f \in ParamFlags |-> f # "lastMessage"]

EmptyMap == [k \in {} |-> 0]
NoEncodeArgs ==
  [ client |-> "none", params |-> DefaultParams,
    group |-> [ id |-> "none", topic |-> "none", createdAt |-> 0, isActive |-> FALSE,
                addedByInboxId |-> "none", name |-> "", imageUrlSquare |-> "",
                description |-> "", consentState |-> "unknown", messages |-> << >> ] ]
NotEncoded == [ done |-> FALSE, obj |-> EmptyMap ]

\* a conversationParams text: the empty string, or a JSON object (its keys and
\* their values); none: no text has been handed over
NoJson == [ kind |-> "none", obj |-> EmptyMap ]
NotParsed == [ done |-> FALSE, params |-> DefaultParams ]

\* the groups shown in the sample app's list: those of the signed-in client
UiGroups == {g \in Groups : g.clientInstallationId = InstallationIdOf["A"]}

\* a GroupListItem: effect and deny are the positions of the mount effect and of
\* denyGroup, effectVal and denyVal the consent values their fetches returned,
\* shown the consentState of useState (undefined until set)
Unmounted ==
  [ effect |-> "unmounted", effectVal |-> "none", deny |-> "idle", denyVal |-> "none",
    shown |-> "undefined" ]

InitCore(b) ==
  /\ budget = b
  /\ starts = << >>
  /\ active = {}
  /\ subscriptions = [a \in Clients |-> [c \in FacadeEvents |-> 0]]
  /\ known = [a \in Clients |-> {}]
  /\ gwSubs = {}
  /\ pending = EmptyBag
  /\ delivered = EmptyBag
  /\ arrived = EmptyBag
  /\ unsubCalls = EmptyBag
  /\ cancelled = {}
  /\ listed = [a \in Clients |-> [m \in ListMethods |-> {}]]
  /\ last = NoLast
  /\ gwConsent = [k \in ConsentKeys |-> "unknown"]
  /\ lastWrite = [k \in ConsentKeys |-> NoWrite]
  /\ consentResult = NoConsentResult
  /\ suspended = {}
  /\ running = {}
  /\ gwStaged = [k \in ConsentKeys |-> {}]
  /\ gwSent = EmptyBag
  /\ opResult = NoOpResult

InitWith(b) ==
  /\ InitCore(b)
  /\ encodeArgs = NoEncodeArgs
  /\ encoded = NotEncoded
  /\ jsonArg = NoJson
  /\ parsed = NotParsed
  /\ ui = [g \in UiGroups |-> Unmounted]
  /\ unsubPending = {}

Init ==
  InitWith([Budget(MaxStarts, MaxEvents, MaxCancels, MaxLists, MaxConsentOps)
              EXCEPT !.throws = MaxThrows, !.ops = MaxMsgOps, !.suspends = MaxInflight])

\* ------------------------------------------------------- starting a stream
LidsOf(a, cat) == {l \in 1..Len(starts) : starts[l].client = a /\ starts[l].cat = cat}
ActiveOf(a, cat) == LidsOf(a, cat) \cap active

\* the body shared by the seven start methods of Conversations: the subscribe
\* call, emitter.addListener, and (where the method does it) the registry entry
Start(a, cat) ==
  LET lid == Len(starts) + 1
      sub == GwSub(SubscribeApi(cat), InboxIdOf[a], "none")
  IN  /\ budget.starts > 0
      /\ budget' = [budget EXCEPT !.starts = @ - 1]
      /\ gwSubs' = gwSubs \cup {sub}
      /\ starts' = Append(starts, [client |-> a, cat |-> cat, conv |-> "none",
                                   after |-> cancelled \cap LidsOf(a, cat)])
      /\ active' = active \cup {lid}
      /\ subscriptions' =
           IF Registers(cat) THEN [subscriptions EXCEPT ![a][cat] = lid]
           ELSE subscriptions
      /\ last' = [NoLast EXCEPT !.op = "start", !.client = a, !.cat = cat,
                                !.lid = lid, !.sub = {sub}]
      /\ UNCHANGED << known, pending, delivered, arrived, unsubCalls, cancelled,
                      listed, consentVars, suspended, running, msgVars, auxVars >>

stream(a) == Start(a, EvConversation)
streamAll(a) == Start(a, EvConversationContainer)
streamGroups(a) == Start(a, EvGroup)
streamConversations(a) == Start(a, EvConversationV3)
streamAllMessages(a) == Start(a, EvMessage)
streamAllGroupMessages(a) == Start(a, EvAllGroupMessage)
streamAllConversationMessages(a) == Start(a, EvAllConversationMessages)

\* Group.streamMessages up to its await: the subscribe call is issued
streamMessagesSubscribe(g) ==
  LET sub == GwSub(SubscribeApi(EvConversationMessage), g.clientInstallationId, g.id)
  IN  /\ budget.starts > 0
      /\ budget' = [budget EXCEPT !.starts = @ - 1]
      /\ gwSubs' = gwSubs \cup {sub}
      /\ pending' = pending (+) SetToBag({g})
      /\ last' = [NoLast EXCEPT !.op = "subscribe", !.client = OwnerOf(g),
                                !.cat = EvConversationMessage, !.id = g.id, !.sub = {sub}]
      /\ UNCHANGED << starts, active, subscriptions, known, delivered, arrived,
                      unsubCalls, cancelled, listed, consentVars, suspended, running,
                      msgVars, auxVars >>

\* Group.streamMessages after its await: the listener is added, the handle returned
streamMessagesListen(g) ==
  LET lid == Len(starts) + 1
  IN  /\ BagIn(g, pending)
      /\ pending' = pending (-) SetToBag({g})
      /\ starts' = Append(starts, [client |-> OwnerOf(g), cat |-> EvConversationMessage,
                                   conv |-> g.id,
                                   after |-> cancelled \cap
                                             LidsOf(OwnerOf(g), EvConversationMessage)])
      /\ active' = active \cup {lid}
      /\ last' = [NoLast EXCEPT !.op = "start", !.client = OwnerOf(g),
                                !.cat = EvConversationMessage, !.lid = lid, !.id = g.id]
      /\ UNCHANGED << subscriptions, known, gwSubs, delivered, arrived, unsubCalls,
                      cancelled, listed, consentVars, suspended, running, msgVars, auxVars,
                      budget >>


\* ------------------------------------------------------ cancelling a stream
\* the listener a cancelX method removes: the registry entry of its event name
RegistryEntry(a, cat) ==
  IF subscriptions[a][cat] # 0 THEN {subscriptions[a][cat]} ELSE {}

\* the start a cancelX call is taken to cancel: the client's latest start of the category
LatestStart(a, cat) ==
  IF LidsOf(a, cat) = {} THEN {}
  ELSE {CHOOSE l \in LidsOf(a, cat) : \A k \in LidsOf(a, cat) : k <= l}

\* mutant of RunningAfterCancel: removing a listener aborts its callbacks in flight
RunningAfterCancelAborted(run, removed) == {r \in run : r.lid \notin removed}

\* the callback invocations in flight after a cancel removed the listeners
\* `removed`: subscription.remove() and the unsubscribe call touch the emitter and
\* the Gateway only, the promises of the invocations are left alone
RunningAfterCancel(run, removed) == run

\* the body shared by the six cancelX methods: remove and delete the registry
\* entry if there is one, then the unsubscribe call, unconditionally
Cancel(a, cat) ==
  LET unsub == GwSub(MethodUnsubscribeApi(cat), InboxIdOf[a], "none")
  IN  /\ budget.cancels > 0
      /\ budget' = [budget EXCEPT !.cancels = @ - 1]
      /\ active' = active \ RegistryEntry(a, cat)
      /\ subscriptions' = [subscriptions EXCEPT ![a][cat] = 0]
      /\ gwSubs' = gwSubs \ {unsub}
      /\ unsubCalls' = unsubCalls (+) SetToBag({unsub})
      /\ cancelled' = cancelled \cup LatestStart(a, cat)
      /\ running' = RunningAfterCancel(running, RegistryEntry(a, cat))
      /\ last' = [NoLast EXCEPT !.op = "cancel", !.client = a, !.cat = cat,
                                !.unsub = {unsub}]
      /\ UNCHANGED << starts, known, pending, delivered, arrived, listed, consentVars, suspended, msgVars, auxVars >>

cancelStream(a) == Cancel(a, EvConversation)
cancelStreamGroups(a) == Cancel(a, EvGroup)
cancelStreamConversations(a) == Cancel(a, EvConversationV3)
cancelStreamAllMessages(a) == Cancel(a, EvMessage)
cancelStreamAllGroupMessages(a) == Cancel(a, EvAllGroupMessage)
cancelStreamAllConversations(a) == Cancel(a, EvAllConversationMessages)

\* the handle returned by a start: it removes its own listener, then issues its
\* unsubscribe; the handle of streamAll runs cancelStream() instead, which also
\* removes and deletes the registry entry of stream()
Handle(l, cat) ==
  LET a == starts[l].client
      viaCancelStream == (cat = EvConversationContainer)
      unsub == IF cat = EvConversationMessage
               THEN GwSub(HandleUnsubscribeApi(cat), InstallationIdOf[a], starts[l].conv)
               ELSE GwSub(HandleUnsubscribeApi(cat), InboxIdOf[a], "none")
  IN  /\ l \in 1..Len(starts)
      /\ starts[l].cat = cat
      /\ budget.cancels > 0
      /\ budget' = [budget EXCEPT !.cancels = @ - 1]
      /\ active' = IF viaCancelStream
                   THEN (active \ {l}) \ RegistryEntry(a, EvConversation)
                   ELSE active \ {l}
      /\ subscriptions' = IF viaCancelStream
                          THEN [subscriptions EXCEPT ![a][EvConversation] = 0]
                          ELSE subscriptions
      /\ gwSubs' = gwSubs \ {unsub}
      /\ unsubCalls' = unsubCalls (+) SetToBag({unsub})
      /\ cancelled' = cancelled \cup {l}
      /\ running' = RunningAfterCancel(running, active \ active')
      /\ last' = [NoLast EXCEPT !.op = "handle", !.client = a, !.cat = cat, !.lid = l,
                                !.unsub = {unsub}]
      /\ UNCHANGED << starts, known, pending, delivered, arrived, listed, consentVars, suspended, msgVars, auxVars >>

streamGroupsHandle(l) == Handle(l, EvGroup)
streamConversationsHandle(l) == Handle(l, EvConversationV3)
streamAllHandle(l) == Handle(l, EvConversationContainer)
streamMessagesHandle(l) == Handle(l, EvConversationMessage)

\* mutant of RemovesListenerFirst: the listener is removed when the unsubscribe
\* call has resolved
RemovesListenerLast(cat) == FALSE

\* whether a handle removes its listener before it issues its unsubscribe call:
\* `messageSubscription.remove()` is the handle's first statement
RemovesListenerFirst(cat) == TRUE

\* The function returned by Group.streamMessages is called: it removes its
\* listener and issues unsubscribeFromMessages, which it awaits. (Handle is this
\* call with the Gateway serving the unsubscribe at once.)
streamMessagesHandleCall(l) ==
  LET a == starts[l].client
      cat == EvConversationMessage
      unsub == GwSub(HandleUnsubscribeApi(cat), InstallationIdOf[a], starts[l].conv)
  IN  /\ l \in 1..Len(starts)
      /\ starts[l].cat = cat
      /\ budget.cancels > 0
      /\ budget' = [budget EXCEPT !.cancels = @ - 1]
      /\ active' = IF RemovesListenerFirst(cat) THEN active \ {l} ELSE active
      /\ cancelled' = cancelled \cup {l}
      /\ running' = RunningAfterCancel(running, active \ active')
      /\ unsubPending' = unsubPending \cup {[lid |-> l, sub |-> unsub]}
      /\ last' = [NoLast EXCEPT !.op = "handleCall", !.client = a, !.cat = cat,
                                !.lid = l, !.unsub = {unsub}]
      /\ UNCHANGED << starts, subscriptions, known, gwSubs, pending, delivered, arrived,
                      unsubCalls, listed, suspended, consentVars, msgVars, wrapVars, ui >>

\* the Gateway serves a pending unsubscribeFromMessages call and the handle's
\* promise resolves
unsubscribeFromMessagesServed(p) ==
  /\ p \in unsubPending
  /\ unsubPending' = unsubPending \ {p}
  /\ gwSubs' = gwSubs \ {p.sub}
  /\ unsubCalls' = unsubCalls (+) SetToBag({p.sub})
  /\ active' = active \ {p.lid}
  /\ running' = RunningAfterCancel(running, active \ active')
  /\ last' = [NoLast EXCEPT !.op = "handleServed", !.client = starts[p.lid].client,
                            !.cat = EvConversationMessage, !.lid = p.lid,
                            !.unsub = {p.sub}]
  /\ UNCHANGED << starts, subscriptions, known, pending, delivered, arrived, cancelled,
                  listed, suspended, consentVars, msgVars, wrapVars, ui, budget >>

\* ------------------------------------------------------------------ lists
\* mutant of ListKeys: every list method records the ids
ListKeysIds(method, R) == {c.id : c \in R}

\* a list call completing with result R: listGroups records the ids, listAll the
\* topics, listConversations records nothing
ListKeys(method, R) ==
  CASE method = "listGroups" -> {c.id : c \in R}
    [] method = "listAll" -> {c.topic : c \in R}
    [] method = "listConversations" -> {}

List(a, method, R) ==
  /\ budget.lists > 0
  /\ budget' = [budget EXCEPT !.lists = @ - 1]
  /\ known' = [known EXCEPT ![a] = @ \cup ListKeys(method, R)]
  /\ listed' = [listed EXCEPT ![a][method] = @ \cup {c.id : c \in R}]
  /\ last' = [NoLast EXCEPT !.op = method, !.client = a]
  /\ UNCHANGED << starts, active, subscriptions, gwSubs, pending, delivered, arrived,
                  unsubCalls, cancelled, consentVars, suspended, running, msgVars, auxVars >>

listGroups(a) == \E R \in SUBSET GroupConvs : List(a, "listGroups", R)
listAll(a) == \E R \in SUBSET Convs : List(a, "listAll", R)
listConversations(a) == \E R \in SUBSET Convs : List(a, "listConversations", R)

\* ----------------------------------------------------------------- events
\* the known key of the entity with this id under a category
KeyOfId(cat, id) == KeyOf(cat, CHOOSE p \in PayloadsOf(cat) : p.id = id)

\* the keys written to the client's known map when the callbacks of the runs R
\* have returned: none, every listener writes its key before the call
LateKeys(a, R) ==
  { KeyOfId(starts[r.lid].cat, r.id) :
      r \in {q \in R : /\ starts[q.lid].client = a
                        /\ starts[q.lid].cat \in FacadeEvents
                        /\ ~RecordsBeforeCallback(starts[q.lid].cat)} }

\* A listener run that passed its checks calls the callback at once
\* (`await callback(...)` evaluates the call before it suspends); a run that had
\* an await before the call would be suspended first and resume at a later time.
\* A callback that throws rejects the listener's promise, which nobody handles
\* unless the listener catches it.
\* The Gateway pushes one event for client b: the emitter runs every registered
\* listener of the event name, whichever client added it.
Emit(b, cat, ev) ==
  LET targets == {l \in active : starts[l].cat = cat}
      res == Dispatch(SortedSeq(targets), ev, [known |-> known, invoked |-> {}])
      heard == \E l \in targets :
                 /\ starts[l].client = b
                 /\ cat = EvConversationMessage => starts[l].conv = ev.conv
      runs == {[lid |-> l, n |-> EventNo, id |-> ev.payload.id] : l \in res.invoked}
      direct == IF AwaitsBeforeCallback(cat) THEN {}
                ELSE {r \in runs : ~(QueuesBehindRunning(cat) /\
                                       \E q \in running : q.lid = r.lid)}
      waiting == suspended \cup (runs \ direct)
  IN  /\ budget.events > 0
      /\ arrived' = IF heard THEN arrived (+) SetToBag({<< b, cat, ev.payload.id >>})
                    ELSE arrived
      /\ \E resumed \in {R \in SUBSET waiting : Cardinality(R) <= 1} :
         \E thrown \in {T \in SUBSET (direct \cup resumed) : Cardinality(T) <= budget.throws} :
         \E inflight \in {F \in SUBSET ((direct \cup resumed) \ thrown) :
                             Cardinality(F) <= budget.suspends} :
           LET started == direct \cup resumed
               returned == started \ inflight
           IN  /\ suspended' = waiting \ resumed
               /\ running' = running \cup inflight
               /\ known' = [a \in Clients |->
                              res.known[a] \cup LateKeys(a, returned)]
               /\ delivered' = delivered (+) SetToBag({<< r.lid, r.id >> : r \in started})
               /\ budget' = [budget EXCEPT !.events = @ - 1,
                                           !.throws = @ - Cardinality(thrown),
                                           !.suspends = @ - Cardinality(inflight)]
               /\ last' = [NoLast EXCEPT
                             !.op = "event", !.client = b, !.cat = cat,
                             !.id = ev.payload.id, !.invoked = {r.lid : r \in started},
                             !.started = started, !.threw = {r.lid : r \in thrown},
                             !.unhandled =
                               {r.lid : r \in {t \in thrown :
                                   ~CatchesCallbackFailure(starts[t.lid].cat)}},
                             !.passed = res.invoked,
                             !.variant = IF started = {} THEN "none"
                                         ELSE EntityVariant(cat, ev.payload)]
      /\ UNCHANGED << starts, active, subscriptions, gwSubs, pending, unsubCalls,
                      cancelled, listed, consentVars, msgVars, auxVars >>

\* a callback invocation in flight finishes: its asynchronous call returned and
\* the callback ran to its end
CallbackCompletes(r) ==
  /\ r \in running
  /\ running' = running \ {r}
  /\ known' = [a \in Clients |-> known[a] \cup LateKeys(a, {r})]
  /\ last' = [NoLast EXCEPT !.op = "complete", !.client = starts[r.lid].client,
                            !.cat = starts[r.lid].cat, !.lid = r.lid, !.id = r.id]
  /\ UNCHANGED << starts, active, subscriptions, gwSubs, pending, delivered, arrived,
                  unsubCalls, cancelled, listed, suspended, consentVars, msgVars, auxVars,
                  budget >>

\* an event of one of the seven facade categories, carrying the client's inbox id
Push(b, cat) ==
  /\ cat \in FacadeEvents
  /\ GwSub(ApiOfEvent(cat), InboxIdOf[b], "none") \in gwSubs
  /\ \E p \in PayloadsOf(cat) :
       Emit(b, cat, [to |-> InboxIdOf[b], conv |-> "none", payload |-> p])

\* a ConversationMessage event, carrying the client's installation id and the
\* conversation id
PushConversationMessage(b) ==
  \E m \in PayloadsOf(EvConversationMessage) :
    /\ GwSub(ApiOfEvent(EvConversationMessage), InstallationIdOf[b], m.conv) \in gwSubs
    /\ Emit(b, EvConversationMessage,
            [to |-> InstallationIdOf[b], conv |-> m.conv, payload |-> m])

\* a ConversationMessage event for a conversation that is no group of the model:
\* the native module emits the messages of every conversation the installation
\* streams (those of Conversation.streamMessages and Dm.streamMessages too) under
\* this one event name
PushOtherConversationMessage(b) ==
  \E m \in Msgs \ PayloadsOf(EvConversationMessage) :
    /\ \E sub \in gwSubs : /\ sub.api = ApiOfEvent(EvConversationMessage)
                           /\ sub.who = InstallationIdOf[b]
    /\ Emit(b, EvConversationMessage,
            [to |-> InstallationIdOf[b], conv |-> m.conv, payload |-> m])

\* the operations of the clients in C, and the events the Gateway pushes for them
StartsOf(C) ==
  \/ \E a \in C : stream(a)
  \/ \E a \in C : streamAll(a)
  \/ \E a \in C : streamGroups(a)
  \/ \E a \in C : streamConversations(a)
  \/ \E a \in C : streamAllMessages(a)
  \/ \E a \in C : streamAllGroupMessages(a)
  \/ \E a \in C : streamAllConversationMessages(a)
  \/ \E g \in Groups : OwnerOf(g) \in C /\ streamMessagesSubscribe(g)
  \/ \E g \in Groups : OwnerOf(g) \in C /\ streamMessagesListen(g)

CancelsOf(C) ==
  \/ \E a \in C : cancelStream(a)
  \/ \E a \in C : cancelStreamGroups(a)
  \/ \E a \in C : cancelStreamConversations(a)
  \/ \E a \in C : cancelStreamAllMessages(a)
  \/ \E a \in C : cancelStreamAllGroupMessages(a)
  \/ \E a \in C : cancelStreamAllConversations(a)
  \/ \E l \in 1..Len(starts) : streamGroupsHandle(l)
  \/ \E l \in 1..Len(starts) : streamConversationsHandle(l)
  \/ \E l \in 1..Len(starts) : streamAllHandle(l)
  \/ \E l \in 1..Len(starts) : streamMessagesHandle(l)

ListsOf(C) ==
  \/ \E a \in C : listGroups(a)
  \/ \E a \in C : listAll(a)
  \/ \E a \in C : listConversations(a)

CallbacksOf(C) ==
  \E r \in running : starts[r.lid].client \in C /\ CallbackCompletes(r)

EventsOf(C) ==
  \/ \E b \in C, cat \in FacadeEvents : Push(b, cat)
  \/ \E b \in C : PushConversationMessage(b)

\* one client: starts, lists and events (deduplication)
DedupInit == InitWith(Budget(MaxStarts, MaxEvents, 0, MaxLists, 0))
DedupNext == StartsOf({"A"}) \/ ListsOf({"A"}) \/ EventsOf({"A"})
DedupSpec == DedupInit /\ [][DedupNext]_vars

\* one client: starts, cancels and events (the subscription lifecycle)
LifecycleInit == InitWith(Budget(MaxStarts, MaxEvents, MaxCancels, 0, 0))
LifecycleNext == StartsOf({"A"}) \/ CancelsOf({"A"}) \/ EventsOf({"A"})
LifecycleSpec == LifecycleInit /\ [][LifecycleNext]_vars

\* two clients sharing the emitter: starts and events
SharedInit == InitWith(Budget(MaxStarts, MaxEvents, 0, 0, 0))
SharedNext == StartsOf(Clients) \/ EventsOf(Clients)
SharedSpec == SharedInit /\ [][SharedNext]_vars

\* one client: starts and events, with callbacks that can throw
CallbackInit == InitWith([Budget(MaxStarts, MaxEvents, 0, 0, 0) EXCEPT !.throws = MaxThrows])
CallbackNext == StartsOf({"A"}) \/ EventsOf({"A"})
CallbackSpec == CallbackInit /\ [][CallbackNext]_vars

\* two clients sharing the emitter: both stream conversations (stream, streamAll,
\* streamGroups) and receive events, one of them also lists and cancels
IndependentInit == InitWith(Budget(MaxStarts, MaxEvents, MaxIndependentCancels, MaxLists, 0))
IndependentNext ==
  \/ \E a \in Clients : stream(a)
  \/ \E a \in Clients : streamAll(a)
  \/ \E a \in Clients : streamGroups(a)
  \/ cancelStream("A")
  \/ cancelStreamGroups("A")
  \/ \E l \in 1..Len(starts) : starts[l].client = "A" /\ streamAllHandle(l)
  \/ \E l \in 1..Len(starts) : starts[l].client = "A" /\ streamGroupsHandle(l)
  \/ ListsOf({"A"})
  \/ \E b \in Clients, cat \in ConversationEvents : Push(b, cat)
IndependentSpec == IndependentInit /\ [][IndependentNext]_vars

\* two clients streaming the messages of the group they share, and the
\* ConversationMessage events of their installations
GroupStreamInit == InitWith(Budget(MaxStarts, MaxEvents, 0, 0, 0))
GroupStreamNext ==
  \/ \E g \in Groups : streamMessagesSubscribe(g)
  \/ \E g \in Groups : streamMessagesListen(g)
  \/ \E b \in Clients : PushConversationMessage(b)
  \/ \E b \in Clients : PushOtherConversationMessage(b)
GroupStreamSpec == GroupStreamInit /\ [][GroupStreamNext]_vars

\* one client streaming the messages of a group: starts, the handles and the
\* Gateway serving their unsubscribe calls, and the group's message events
HandleInit == InitWith(Budget(MaxStarts, MaxEvents, MaxCancels, 0, 0))
HandleNext ==
  \/ \E g \in Groups : OwnerOf(g) = "A" /\ streamMessagesSubscribe(g)
  \/ \E g \in Groups : OwnerOf(g) = "A" /\ streamMessagesListen(g)
  \/ \E l \in 1..Len(starts) : streamMessagesHandleCall(l)
  \/ \E p \in unsubPending : unsubscribeFromMessagesServed(p)
  \/ PushConversationMessage("A")
HandleSpec == HandleInit /\ [][HandleNext]_vars

\* one client listing and streaming conversations (stream, streamAll,
\* streamGroups): starts, lists and events
ListedEvents == {EvConversation, EvConversationContainer, EvGroup}
ListedInit == InitWith(Budget(MaxStarts, MaxEvents, 0, MaxLists, 0))
ListedNext ==
  \/ stream("A")
  \/ streamAll("A")
  \/ streamGroups("A")
  \/ ListsOf({"A"})
  \/ \E cat \in ListedEvents : Push("A", cat)
ListedSpec == ListedInit /\ [][ListedNext]_vars

\* one client streaming conversations, groups, all messages and the messages
\* of a group (stream, streamGroups, streamAllMessages, Group.streamMessages):
\* starts, cancels and events, with callbacks that stay in flight
InflightEvents == {EvConversation, EvGroup, EvMessage}
InflightInit ==
  InitWith([Budget(MaxInflightStarts, MaxEvents, MaxInflightCancels, 0, 0)
              EXCEPT !.suspends = MaxInflight])
InflightNext ==
  \/ stream("A")
  \/ streamGroups("A")
  \/ streamAllMessages("A")
  \/ cancelStream("A")
  \/ cancelStreamGroups("A")
  \/ cancelStreamAllMessages("A")
  \/ \E g \in Groups : OwnerOf(g) = "A" /\ streamMessagesSubscribe(g)
  \/ \E g \in Groups : OwnerOf(g) = "A" /\ streamMessagesListen(g)
  \/ \E l \in 1..Len(starts) : streamGroupsHandle(l)
  \/ \E l \in 1..Len(starts) : streamMessagesHandle(l)
  \/ \E cat \in InflightEvents : Push("A", cat)
  \/ PushConversationMessage("A")
  \/ CallbacksOf({"A"})
InflightSpec == InflightInit /\ [][InflightNext]_vars

\* ---------------------------------------------------------------- consent
\* the Gateway's two consent calls: a write that was accepted, and a read
GwUpdateConsent(store, call) ==
  [store EXCEPT ![<< call.installationId, call.id >>] = call.state]

GwConsentState(store, call) == store[<< call.installationId, call.id >>]

\* mutant of UpdateConsentCall: the requested state is not passed on
UpdateConsentCallDenied(g, state) ==
  [installationId |-> g.clientInstallationId, id |-> g.id, state |-> "denied"]

\* the arguments Group.updateConsent passes to XMTP.updateConversationConsent
UpdateConsentCall(g, state) ==
  [installationId |-> g.clientInstallationId, id |-> g.id, state |-> state]

\* mutant of ConsentStateCall: the fetch is made with another installation's id
ConsentStateCallFirstInstallation(g) ==
  [installationId |-> InstallationIdOf["A"], id |-> g.id]

\* the arguments Group.consentState passes to XMTP.conversationConsentState
ConsentStateCall(g) == [installationId |-> g.clientInstallationId, id |-> g.id]

\* Group.updateConsent(state): one Gateway write, awaited; the Gateway accepts it
\* or fails, and a failure rejects the returned promise
updateConsent(g, state) ==
  LET k == << g.clientInstallationId, g.id >>
  IN  /\ budget.consent > 0
      /\ budget' = [budget EXCEPT !.consent = @ - 1]
      /\ \E accepted \in BOOLEAN :
           /\ gwConsent' = IF accepted
                           THEN GwUpdateConsent(gwConsent, UpdateConsentCall(g, state))
                           ELSE gwConsent
           /\ lastWrite' = IF accepted
                           THEN [lastWrite EXCEPT ![k] = [by |-> "facade", target |-> state]]
                           ELSE lastWrite
           /\ consentResult' = [NoConsentResult EXCEPT
                                  !.op = "updateConsent", !.key = k, !.target = state,
                                  !.gwOk = accepted, !.ok = accepted, !.writes = 1,
                                  !.prior = gwConsent[k]]
      /\ UNCHANGED << streamVars, msgVars, auxVars >>

\* Group.consentState(): one Gateway read, whose result is returned
consentState(g) ==
  LET k == << g.clientInstallationId, g.id >>
      afterFailedUpdate ==
        consentResult.op = "updateConsent" /\ consentResult.key = k /\ ~consentResult.ok
  IN  /\ budget.consent > 0
      /\ budget' = [budget EXCEPT !.consent = @ - 1]
      /\ consentResult' = [NoConsentResult EXCEPT
                             !.op = "consentState", !.key = k, !.fetches = 1,
                             !.value = GwConsentState(gwConsent, ConsentStateCall(g)),
                             !.prior = IF afterFailedUpdate THEN consentResult.prior
                                       ELSE "none"]
      /\ UNCHANGED << streamVars, msgVars, auxVars, gwConsent, lastWrite >>

\* another writer (another device of the inbox) changes the consent state at the Gateway
RemoteConsentWrite(k, state) ==
  /\ budget.consent > 0
  /\ budget' = [budget EXCEPT !.consent = @ - 1]
  /\ gwConsent' = [gwConsent EXCEPT ![k] = state]
  /\ lastWrite' = [lastWrite EXCEPT ![k] = [by |-> "remote", target |-> state]]
  /\ consentResult' = [NoConsentResult EXCEPT !.op = "remoteWrite", !.key = k,
                                              !.target = state]
  /\ UNCHANGED << streamVars, msgVars, auxVars >>

ConsentNext ==
  \/ \E g \in Groups, state \in ConsentStates : updateConsent(g, state)
  \/ \E g \in Groups : consentState(g)
  \/ \E k \in ConsentKeys, state \in ConsentStates : RemoteConsentWrite(k, state)

ConsentInit == InitWith(Budget(0, 0, 0, 0, MaxConsentOps))
ConsentSpec == ConsentInit /\ [][ConsentNext]_vars

\* ------------------------------------------- sending, preparing, publishing
\* opts.contentType of a send or prepare call ("none": not given) and the keys
\* of Client.codecRegistry
ContentTypeIds == {"text", "custom"}
CodecRegistry == {"text"}

\* the content argument: a string, or a structured MessageContent
Contents == { [kind |-> "string", text |-> "hello"], [kind |-> "object", text |-> "hello"] }

\* `if (typeof content === 'string') content = { text: content }`
WrapContent(content) ==
  IF content.kind = "string" THEN [kind |-> "object", text |-> content.text] ELSE content

\* mutant of CodecFound: the lookup's result is not tested
CodecFoundAlways(contentType) == TRUE

\* `const codec = Client.codecRegistry[...]; if (!codec) throw`
CodecFound(contentType) == contentType \in CodecRegistry

\* mutant of Settles: the catch block logs and does not rethrow
SettlesSwallowing(gwOk) == "resolved"

\* `try { return await <Gateway call> } catch (e) { console.info(..); throw e }`,
\* and equally a bare `return await <Gateway call>`
Settles(gwOk) == IF gwOk THEN "resolved" ELSE "rejected"

GwCall(api, who, conv, content, codec) ==
  [api |-> api, who |-> who, conv |-> conv, content |-> content, codec |-> codec]

NoContent == [kind |-> "none", text |-> ""]

\* mutant of MessageCall: the plain variant whatever the options
MessageCallPlain(plainApi, typedApi, g, content, contentType) ==
  GwCall(plainApi, g.clientInstallationId, g.id, WrapContent(content), "none")

\* the one Gateway call of send / prepareMessage: the content-type variant when
\* opts.contentType is given, else the plain variant with a string wrapped
MessageCall(plainApi, typedApi, g, content, contentType) ==
  IF contentType # "none"
  THEN GwCall(typedApi, g.clientInstallationId, g.id, content, contentType)
  ELSE GwCall(plainApi, g.clientInstallationId, g.id, WrapContent(content), "none")

\* mutant of PublishCall: the call is made with another installation's id
PublishCallFirstInstallation(g) ==
  GwCall("publishPreparedMessages", InstallationIdOf["A"], g.id, NoContent, "none")

PublishCall(g) ==
  GwCall("publishPreparedMessages", g.clientInstallationId, g.id, NoContent, "none")

\* the id the Gateway gives the next message it sends or stages
NextMessageId == MaxMsgOps - budget.ops + 1

\* the Gateway's side of the calls: a call that succeeds sends, stages, or sends
\* everything staged for the conversation; a call that fails changes nothing
GwSendMessage(sent, call, id) == sent (+) SetToBag({<< << call.who, call.conv >>, id >>})

GwPrepareMessage(staged, call, id) ==
  [staged EXCEPT ![<< call.who, call.conv >>] = @ \cup {id}]

GwPublishSent(sent, staged, call) ==
  sent (+) SetToBag({<< << call.who, call.conv >>, id >> : id \in staged[<< call.who, call.conv >>]})

GwPublishStaged(staged, call) == [staged EXCEPT ![<< call.who, call.conv >>] = {}]

\* the bookkeeping shared by the messaging operations
MsgOp(result) ==
  /\ budget.ops > 0
  /\ budget' = [budget EXCEPT !.ops = @ - 1]
  /\ opResult' = result
  /\ UNCHANGED << streamVars, consentVars, auxVars >>

\* a send or prepareMessage call that found no codec: it throws before any Gateway call
CodecMissing(op, g, contentType) ==
  /\ MsgOp([NoOpResult EXCEPT !.op = op, !.key = << g.clientInstallationId, g.id >>,
                              !.contentType = contentType, !.outcome = "rejected"])
  /\ UNCHANGED << gwStaged, gwSent >>

\* Group.send(content, opts)
send(g, content, contentType) ==
  LET call == MessageCall("sendMessage", "sendWithContentType", g, content, contentType)
  IN  IF contentType # "none" /\ ~CodecFound(contentType)
      THEN CodecMissing("send", g, contentType)
      ELSE \E gwOk \in BOOLEAN :
             /\ MsgOp([NoOpResult EXCEPT
                         !.op = "send", !.key = << g.clientInstallationId, g.id >>,
                         !.contentType = contentType, !.content = content,
                         !.calls = << call >>,
                         !.gwOk = gwOk, !.outcome = Settles(gwOk),
                         !.value = IF gwOk THEN NextMessageId ELSE 0])
             /\ gwSent' = IF gwOk THEN GwSendMessage(gwSent, call, NextMessageId) ELSE gwSent
             /\ UNCHANGED gwStaged

\* Group.prepareMessage(content, opts)
prepareMessage(g, content, contentType) ==
  LET call == MessageCall("prepareMessage", "prepareMessageWithContentType", g, content,
                          contentType)
  IN  IF contentType # "none" /\ ~CodecFound(contentType)
      THEN CodecMissing("prepareMessage", g, contentType)
      ELSE \E gwOk \in BOOLEAN :
             /\ MsgOp([NoOpResult EXCEPT
                         !.op = "prepareMessage", !.key = << g.clientInstallationId, g.id >>,
                         !.contentType = contentType, !.content = content,
                         !.calls = << call >>,
                         !.gwOk = gwOk, !.outcome = Settles(gwOk),
                         !.value = IF gwOk THEN NextMessageId ELSE 0])
             /\ gwStaged' = IF gwOk THEN GwPrepareMessage(gwStaged, call, NextMessageId)
                            ELSE gwStaged
             /\ UNCHANGED gwSent

\* Group.publishPreparedMessages()
publishPreparedMessages(g) ==
  LET k == << g.clientInstallationId, g.id >>
      call == PublishCall(g)
  IN  \E gwOk \in BOOLEAN :
        /\ MsgOp([NoOpResult EXCEPT
                    !.op = "publishPreparedMessages", !.key = k, !.calls = << call >>,
                    !.gwOk = gwOk, !.outcome = Settles(gwOk), !.staged = gwStaged[k],
                    !.retry = /\ opResult.op = "publishPreparedMessages"
                              /\ opResult.key = k
                              /\ opResult.outcome = "rejected"])
        /\ gwSent' = IF gwOk THEN GwPublishSent(gwSent, gwStaged, call) ELSE gwSent
        /\ gwStaged' = IF gwOk THEN GwPublishStaged(gwStaged, call) ELSE gwStaged

\* the operations that decode a payload through one Gateway call:
\* Group.processMessage, Conversations.fromWelcome, Conversations.conversationFromWelcome
Decode(op, api, who, conv) ==
  \E gwOk \in BOOLEAN :
    /\ MsgOp([NoOpResult EXCEPT
                !.op = op, !.key = << who, conv >>,
                !.calls = << GwCall(api, who, conv, [kind |-> "string", text |-> "encrypted"],
                                    "none") >>,
                !.gwOk = gwOk, !.outcome = Settles(gwOk)])
    /\ UNCHANGED << gwStaged, gwSent >>

processMessage(g) == Decode("processMessage", "processMessage", g.clientInstallationId, g.id)
fromWelcome(a) == Decode("fromWelcome", "processWelcomeMessage", a, "none")
conversationFromWelcome(a) ==
  Decode("conversationFromWelcome", "processConversationWelcomeMessage", a, "none")

MessagingNext ==
  \/ \E g \in Groups, content \in Contents, ct \in ContentTypeIds \cup {"none"} :
       send(g, content, ct)
  \/ \E g \in Groups, content \in Contents, ct \in ContentTypeIds \cup {"none"} :
       prepareMessage(g, content, ct)
  \/ \E g \in Groups : publishPreparedMessages(g)
  \/ \E g \in Groups : processMessage(g)
  \/ \E a \in Clients : fromWelcome(a)
  \/ \E a \in Clients : conversationFromWelcome(a)

MessagingInit == InitWith([Budget(0, 0, 0, 0, 0) EXCEPT !.ops = MaxMsgOps])
MessagingSpec == MessagingInit /\ [][MessagingNext]_vars

\* ------------------------------------------- GroupWrapper (native encoding)
\* the enum org.xmtp.android.library.ConsentState
ConsentEnum == {"ALLOWED", "DENIED", "UNKNOWN"}

consentStateToString(state) ==
  CASE state = "ALLOWED" -> "allowed"
    [] state = "DENIED" -> "denied"
    [] state = "UNKNOWN" -> "unknown"

AddressOf == [a \in Clients |-> IF a = "A" THEN "0xA" ELSE "0xB"]

\* put(key, value) inside buildMap
Put(m, k, v) == [x \in DOMAIN m \cup {k} |-> IF x = k THEN v ELSE m[x]]

\* mutant of PutIf: an option that is off puts the field with a default value
PutIfDefaulted(m, flag, k, v, default) == Put(m, k, IF flag THEN v ELSE default)

\* `if (groupParams.x) put(key, value)`
PutIf(m, flag, k, v, default) == IF flag THEN Put(m, k, v) ELSE m

\* group.messages(limit = n): the n newest messages
GroupMessages(group, limit) ==
  SubSeq(group.messages, 1, IF Len(group.messages) < limit THEN Len(group.messages) ELSE limit)

\* MessageWrapper.encode(message)
MessageWrapperEncode(message) == [id |-> message]

\* GroupWrapper.encodeToObj(client, group, groupParams): the map buildMap returns
encodeToObj(client, group, groupParams) ==
  LET m1 == Put(EmptyMap, "clientAddress", AddressOf[client])
      m2 == Put(m1, "id", group.id)
      m3 == Put(m2, "createdAt", group.createdAt)
      m4 == Put(m3, "version", "GROUP")
      m5 == Put(m4, "topic", group.topic)
      m6 == PutIf(m5, groupParams.isActive, "isActive", group.isActive, FALSE)
      m7 == PutIf(m6, groupParams.addedByInboxId, "addedByInboxId", group.addedByInboxId, "")
      m8 == PutIf(m7, groupParams.name, "name", group.name, "")
      m9 == PutIf(m8, groupParams.imageUrlSquare, "imageUrlSquare", group.imageUrlSquare, "")
      m10 == PutIf(m9, groupParams.description, "description", group.description, "")
      m11 == PutIf(m10, groupParams.consentState, "consentState",
                   consentStateToString(group.consentState), "unknown")
      lastMessage == GroupMessages(group, 1)
  IN  IF groupParams.lastMessage /\ lastMessage # << >>
      THEN Put(m11, "lastMessage", MessageWrapperEncode(Head(lastMessage)))
      ELSE m11

\* the parameters of the ConversationParamsWrapper constructor, in order
ParamOrder ==
  << "isActive", "addedByInboxId", "name", "imageUrlSquare", "description",
     "consentState", "lastMessage" >>

\* ConversationParamsWrapper(a1, ..., a7): the arguments are taken by position
ConversationParamsWrapper(args) ==
  [f \in ParamFlags |-> args[CHOOSE i \in 1..Len(ParamOrder) : ParamOrder[i] = f]]

\* mutant of JsonOption: an absent key reads as true
JsonOptionAbsentTrue(obj, key, default) == IF key \in DOMAIN obj THEN obj[key] ELSE TRUE

\* `if (jsonOptions.has(key)) jsonOptions.get(key).asBoolean else default`
JsonOption(obj, key, default) == IF key \in DOMAIN obj THEN obj[key] ELSE default

\* ConversationParamsWrapper.conversationParamsFromJson(conversationParams)
conversationParamsFromJson(conversationParams) ==
  IF conversationParams.kind = "empty" THEN DefaultParams
  ELSE LET jsonOptions == conversationParams.obj
       IN  ConversationParamsWrapper(
             << JsonOption(jsonOptions, "isActive", TRUE),
                JsonOption(jsonOptions, "addedByInboxId", TRUE),
                JsonOption(jsonOptions, "name", TRUE),
                JsonOption(jsonOptions, "imageUrlSquare", TRUE),
                JsonOption(jsonOptions, "description", TRUE),
                JsonOption(jsonOptions, "consentState", TRUE),
                JsonOption(jsonOptions, "lastMessage", FALSE) >>)

\* the texts conversationParamsFromJson is applied to: the empty string and
\* every JSON object that gives booleans for some of the option keys
JsonInputs ==
  {[kind |-> "empty", obj |-> EmptyMap]}
  \cup {[kind |-> "object", obj |-> o] :
          o \in UNION {[K -> BOOLEAN] : K \in SUBSET ParamFlags}}

\* one call of conversationParamsFromJson on the text chosen at the start
conversationParamsFromJsonCall ==
  /\ jsonArg.kind # "none"
  /\ ~parsed.done
  /\ parsed' = [done |-> TRUE, params |-> conversationParamsFromJson(jsonArg)]
  /\ UNCHANGED << streamVars, consentVars, msgVars, encodeArgs, encoded, jsonArg, ui,
                  unsubPending, budget >>

ParamsInit ==
  /\ InitCore(Budget(0, 0, 0, 0, 0))
  /\ encodeArgs = NoEncodeArgs
  /\ encoded = NotEncoded
  /\ jsonArg \in JsonInputs
  /\ parsed = NotParsed
  /\ ui = [g \in UiGroups |-> Unmounted]
  /\ unsubPending = {}
ParamsNext == conversationParamsFromJsonCall
ParamsSpec == ParamsInit /\ [][ParamsNext]_vars

\* the groups and options encodeToObj is applied to
EncodeGroups ==
  { [ id |-> c.id, topic |-> c.topic, createdAt |-> 1, isActive |-> act,
      addedByInboxId |-> InboxIdOf["B"], name |-> nm, imageUrlSquare |-> "",
      description |-> "", consentState |-> cs,
      messages |-> [i \in 1..n |-> "m1"] ] :
      c \in GroupConvs, act \in BOOLEAN, nm \in {"", "team"}, cs \in ConsentEnum,
      n \in 0..MaxGroupMessages }
EncodeInputs ==
  { [client |-> "A", group |-> g, params |-> p] :
      g \in EncodeGroups, p \in [ParamFlags -> BOOLEAN] }

\* one call of encodeToObj on the arguments chosen at the start
encodeToObjCall ==
  /\ encodeArgs.client \in Clients
  /\ ~encoded.done
  /\ encoded' = [ done |-> TRUE,
                  obj |-> encodeToObj(encodeArgs.client, encodeArgs.group,
                                      encodeArgs.params) ]
  /\ UNCHANGED << streamVars, consentVars, msgVars, encodeArgs, jsonArg, parsed, ui,
                  unsubPending, budget >>

EncodeInit ==
  /\ InitCore(Budget(0, 0, 0, 0, 0))
  /\ encodeArgs \in EncodeInputs
  /\ encoded = NotEncoded
  /\ jsonArg = NoJson
  /\ parsed = NotParsed
  /\ ui = [g \in UiGroups |-> Unmounted]
  /\ unsubPending = {}
EncodeNext == encodeToObjCall
EncodeSpec == EncodeInit /\ [][EncodeNext]_vars

\* ------------------------------------------------ sample app: GroupListItem
\* A Gateway call of the item is served at one time and its promise resolves, and
\* the code after it runs, at a later one; any Gateway call can fail, which
\* rejects the promise.
UiStep(g, item) ==
  /\ ui' = [ui EXCEPT ![g] = item]
  /\ UNCHANGED << streamVars, consentVars, msgVars, wrapVars, unsubPending, budget >>

\* the item is rendered for the first time: useEffect runs and calls group.sync()
mount(g) ==
  /\ ui[g].effect = "unmounted"
  /\ UiStep(g, [ui[g] EXCEPT !.effect = "sync"])

\* group.sync() resolves and group.messages() is called, or sync() rejects and
\* the catch logs the error
effectSync(g) ==
  /\ ui[g].effect = "sync"
  /\ \E ok \in BOOLEAN :
       UiStep(g, [ui[g] EXCEPT !.effect = IF ok THEN "messages" ELSE "failed"])

\* group.messages() resolves, setMessages runs and group.consentState() is called
effectMessages(g) ==
  /\ ui[g].effect = "messages"
  /\ \E ok \in BOOLEAN :
       UiStep(g, [ui[g] EXCEPT !.effect = IF ok THEN "consentState" ELSE "failed"])

\* the Gateway serves the effect's consentState call
effectConsentState(g) ==
  /\ ui[g].effect = "consentState"
  /\ \E ok \in BOOLEAN :
       UiStep(g, [ui[g] EXCEPT
                    !.effect = IF ok THEN "fetched" ELSE "failed",
                    !.effectVal = IF ok THEN GwConsentState(gwConsent, ConsentStateCall(g))
                                  ELSE @])

\* the effect's last then: setConsentState(result)
effectSetConsentState(g) ==
  /\ ui[g].effect = "fetched"
  /\ UiStep(g, [ui[g] EXCEPT !.effect = "done", !.shown = ui[g].effectVal])

\* the user presses the deny button: denyGroup calls group.updateConsent('denied')
denyGroup(g) ==
  /\ ui[g].effect # "unmounted"
  /\ ui[g].deny = "idle"
  /\ UiStep(g, [ui[g] EXCEPT !.deny = "updateConsent"])

\* the Gateway serves denyGroup's updateConsent call
denyGroupUpdateConsent(g) ==
  LET k == << g.clientInstallationId, g.id >>
  IN  /\ ui[g].deny = "updateConsent"
      /\ \E ok \in BOOLEAN :
           /\ ui' = [ui EXCEPT ![g].deny = IF ok THEN "updated" ELSE "failed"]
           /\ gwConsent' = IF ok
                           THEN GwUpdateConsent(gwConsent, UpdateConsentCall(g, "denied"))
                           ELSE gwConsent
           /\ lastWrite' = IF ok
                           THEN [lastWrite EXCEPT ![k] = [by |-> "facade", target |-> "denied"]]
                           ELSE lastWrite
      /\ UNCHANGED << streamVars, consentResult, msgVars, wrapVars, unsubPending,
                      budget >>

\* updateConsent has resolved: denyGroup calls group.consentState()
denyGroupResumes(g) ==
  /\ ui[g].deny = "updated"
  /\ UiStep(g, [ui[g] EXCEPT !.deny = "consentState"])

\* the Gateway serves denyGroup's consentState call
denyGroupConsentState(g) ==
  /\ ui[g].deny = "consentState"
  /\ \E ok \in BOOLEAN :
       UiStep(g, [ui[g] EXCEPT
                    !.deny = IF ok THEN "fetched" ELSE "failed",
                    !.denyVal = IF ok THEN GwConsentState(gwConsent, ConsentStateCall(g))
                                ELSE @])

\* denyGroup's last statement: setConsentState(consent)
denyGroupSetConsentState(g) ==
  /\ ui[g].deny = "fetched"
  /\ UiStep(g, [ui[g] EXCEPT !.deny = "done", !.shown = ui[g].denyVal])

\* a consent update made through the facade before the item is rendered
updateConsentBeforeMount(g, state) ==
  /\ ui[g].effect = "unmounted"
  /\ updateConsent(g, state)

UiNext ==
  \/ \E g \in UiGroups, state \in ConsentStates : updateConsentBeforeMount(g, state)
  \/ \E g \in UiGroups : mount(g)
  \/ \E g \in UiGroups : effectSync(g)
  \/ \E g \in UiGroups : effectMessages(g)
  \/ \E g \in UiGroups : effectConsentState(g)
  \/ \E g \in UiGroups : effectSetConsentState(g)
  \/ \E g \in UiGroups : denyGroup(g)
  \/ \E g \in UiGroups : denyGroupUpdateConsent(g)
  \/ \E g \in UiGroups : denyGroupResumes(g)
  \/ \E g \in UiGroups : denyGroupConsentState(g)
  \/ \E g \in UiGroups : denyGroupSetConsentState(g)

UiInit == InitWith(Budget(0, 0, 0, 0, MaxUiConsentOps))
UiSpec == UiInit /\ [][UiNext]_vars

\* ------------------------------------------------------- the whole program
Next ==
  \/ StartsOf(Clients) \/ CancelsOf(Clients) \/ ListsOf(Clients) \/ EventsOf(Clients)
  \/ CallbacksOf(Clients) \/ ConsentNext \/ MessagingNext \/ EncodeNext
  \/ ParamsNext
  \/ UiNext
  \/ \E b \in Clients : PushOtherConversationMessage(b)
  \/ \E l \in 1..Len(starts) : streamMessagesHandleCall(l)
  \/ \E p \in unsubPending : unsubscribeFromMessagesServed(p)
Spec == Init /\ [][Next]_vars


\* ------------------------------------------------------------- the claims
EntityIds == {c.id : c \in Convs} \cup {m.id : m \in Msgs}

\* how often the callbacks of the listeners in L were invoked with entity x
RECURSIVE DeliveredSum(_, _)
DeliveredSum(L, x) ==
  IF L = {} THEN 0
  ELSE LET l == CHOOSE k \in L : TRUE
       IN  CopiesIn(<< l, x >>, delivered) + DeliveredSum(L \ {l}, x)

DeliveredTo(a, cat, x) == DeliveredSum(LidsOf(a, cat), x)
ArrivedAt(a, cat, x) == CopiesIn(<< a, cat, x >>, arrived)
ListedIds(a) == UNION {listed[a][m] : m \in ListMethods}
IsCancel(op) == op.op \in {"cancel", "handle"}

\* C1: in every category, of the events carrying identity x that reach a listener
\* of the client, the first invokes the callback and no later one does. Stated in
\* its weakest reading: no callback is invoked twice with the same identity, and
\* the first event is delivered when x was neither listed nor seen on another category.
C1_FirstAndOnlyFirst ==
  \A a \in Clients, cat \in FacadeEvents, x \in EntityIds :
    /\ \A l \in LidsOf(a, cat) : CopiesIn(<< l, x >>, delivered) <= 1
    /\ ( /\ ArrivedAt(a, cat, x) >= 1
         /\ x \notin ListedIds(a)
         /\ \A c2 \in FacadeEvents \ {cat} : ArrivedAt(a, c2, x) = 0 )
       => DeliveredTo(a, cat, x) >= 1

\* C2: deduplication is per category: whatever the other categories have seen, an
\* identity that reached a listener of a category (and was not listed) has been
\* delivered by that category.
C2_DedupPerCategory ==
  \A a \in Clients, cat \in FacadeEvents, x \in EntityIds :
    (ArrivedAt(a, cat, x) >= 1 /\ x \notin ListedIds(a)) => DeliveredTo(a, cat, x) >= 1

\* C3: an event pushed for one client never invokes a callback registered by another
\* client and never changes the other client's known map.
C3_CrossClientIsolation ==
  [][ \A a \in Clients :
        (last'.op = "event" /\ budget'.events < budget.events /\ last'.client # a)
        => /\ known'[a] = known[a]
           /\ \A l \in last'.invoked : starts[l].client # a ]_vars

\* C3 witness: an event for B was dispatched while A had a listener of that
\* category registered; B's callback ran and A's did not.
C3_Witness ==
  /\ last.op = "event"
  /\ last.client = "B"
  /\ last.invoked # {}
  /\ \E l \in active : starts[l].client = "A" /\ starts[l].cat = last.cat

\* C4: a streamAll event for a conversation that a completed listConversations
\* call returned does not invoke the streamAll callback.
C4_ListedNotStreamed ==
  ( /\ last.op = "event"
    /\ last.cat = EvConversationContainer
    /\ last.id \in listed[last.client]["listConversations"] )
  => last.invoked = {}

\* C5: at most one listener is registered per category and client, and every
\* registered listener can still be cancelled (by its handle or its registry entry).
C5_OneListenerPerCategory ==
  \A a \in Clients, cat \in FacadeEvents :
    /\ Cardinality(ActiveOf(a, cat)) <= 1
    /\ \A l \in ActiveOf(a, cat) : ReturnsHandle(cat) \/ subscriptions[a][cat] = l

\* C6: of two cancels in a row of the same started stream (method or handle), the
\* second issues no Gateway call.
C6_SecondCancelSilent ==
  [][ \A a \in Clients, cat \in EventNames :
        ( /\ LidsOf(a, cat) # {}
          /\ IsCancel(last) /\ last.client = a /\ last.cat = cat
          /\ IsCancel(last') /\ last'.client = a /\ last'.cat = cat
          /\ budget'.cancels < budget.cancels
          /\ (last.op = "handle" /\ last'.op = "handle") => last.lid = last'.lid )
        => unsubCalls' = unsubCalls ]_vars

\* C7: no event invokes the callback of a start whose cancel has returned.
C7_CancelledNeverInvoked ==
  last.op = "event" => last.invoked \cap cancelled = {}

\* C8: a cancel issues the unsubscribe of the category, and for the id, that the
\* start subscribed with.
C8_UnsubscribePairs ==
  /\ last.op = "cancel"
     => last.unsub = {GwSub(SubscribeApi(last.cat), InboxIdOf[last.client], "none")}
  /\ last.op = "handle"
     => last.unsub =
          { GwSub(SubscribeApi(last.cat),
                  IF last.cat = EvConversationMessage
                  THEN InstallationIdOf[last.client] ELSE InboxIdOf[last.client],
                  starts[last.lid].conv) }

\* C9: a cancel of one category leaves the listeners, the registry entry and the
\* Gateway subscription of every other category of the client as they were.
C9_CancelFrame ==
  [][ \A a \in Clients, cat \in FacadeEvents :
        ( /\ budget'.cancels < budget.cancels
          /\ last'.client = a
          /\ last'.cat # cat )
        => /\ ActiveOf(a, cat)' = ActiveOf(a, cat)
           /\ subscriptions'[a][cat] = subscriptions[a][cat]
           /\ (GwSub(SubscribeApi(cat), InboxIdOf[a], "none") \in gwSubs')
                = (GwSub(SubscribeApi(cat), InboxIdOf[a], "none") \in gwSubs) ]_vars

\* C10: a consentState() fetch that follows a successful updateConsent(target) of
\* the same group, with no other accepted write in between, returns target.
C10_ConsentRoundTrip ==
  ( /\ consentResult.op = "consentState"
    /\ lastWrite[consentResult.key].by = "facade" )
  => consentResult.value = lastWrite[consentResult.key].target

\* C10 witness: such a fetch returned "allowed", which the state was not at the start.
C10_Witness ==
  /\ consentResult.op = "consentState"
  /\ lastWrite[consentResult.key].by = "facade"
  /\ consentResult.value = "allowed"

\* C11: a failed updateConsent rejects and leaves the Gateway's state for the key
\* as it was, and a consentState() fetch of the same group that directly follows
\* the failed update returns the state that held before it.
C11_FailedUpdateKeepsState ==
  /\ (consentResult.op = "updateConsent" /\ ~consentResult.gwOk)
     => /\ ~consentResult.ok
        /\ gwConsent[consentResult.key] = consentResult.prior
  /\ (consentResult.op = "consentState" /\ consentResult.prior # "none")
     => consentResult.value = consentResult.prior

\* C11 witness: a fetch directly after a failed update returned "allowed", the
\* state an earlier update had set, and not the failed update's target.
C11_Witness ==
  /\ consentResult.op = "consentState"
  /\ consentResult.prior = "allowed"
  /\ consentResult.value = "allowed"

\* C12: every updateConsent call that sent its mutation to the Gateway has also
\* issued a Gateway consent fetch before it resolved, and resolved with the
\* fetched state.
C12_UpdateRefetches ==
  (consentResult.op = "updateConsent" /\ consentResult.writes >= 1 /\ consentResult.ok)
  => /\ consentResult.fetches >= 1
     /\ consentResult.value = gwConsent[consentResult.key]

\* C13: a callback that throws while handling an event does not escape its
\* listener as an unhandled rejection, and the listener stays registered.
C13_CallbackFailureIsolated ==
  last.op = "event"
  => /\ last.unhandled = {}
     /\ last.threw \subseteq active

MessagingOps ==
  {"send", "prepareMessage", "publishPreparedMessages", "processMessage", "fromWelcome",
   "conversationFromWelcome"}

\* C14: no message is transmitted twice; a publishPreparedMessages that fails
\* rejects and leaves every message staged for the conversation staged and
\* unsent; one that succeeds has transmitted each of them exactly once and left
\* none staged.
C14_PublishAllOrNone ==
  /\ \A k \in ConsentKeys, id \in 1..MaxMsgOps : CopiesIn(<< k, id >>, gwSent) <= 1
  /\ opResult.op = "publishPreparedMessages"
     => IF opResult.gwOk
        THEN /\ opResult.outcome = "resolved"
             /\ gwStaged[opResult.key] = {}
             /\ \A id \in opResult.staged : CopiesIn(<< opResult.key, id >>, gwSent) = 1
        ELSE /\ opResult.outcome = "rejected"
             /\ gwStaged[opResult.key] = opResult.staged
             /\ \A id \in opResult.staged : CopiesIn(<< opResult.key, id >>, gwSent) = 0

\* C14 witness: a publish that retried a failed publish succeeded and
\* transmitted a staged message.
C14_Witness ==
  /\ opResult.op = "publishPreparedMessages"
  /\ opResult.retry
  /\ opResult.gwOk
  /\ opResult.staged # {}

\* C16: a send or prepareMessage call given a content type for which no codec is
\* registered rejects, and has issued no Gateway call.
C16_CodecMissingFailsFast ==
  ( /\ opResult.op \in {"send", "prepareMessage"}
    /\ opResult.contentType # "none"
    /\ opResult.contentType \notin CodecRegistry )
  => /\ opResult.outcome = "rejected"
     /\ opResult.calls = << >>

\* C16 witness: a prepareMessage call with an unregistered content type was
\* rejected while nothing was staged or sent for its conversation.
C16_Witness ==
  /\ opResult.op = "prepareMessage"
  /\ opResult.contentType = "custom"
  /\ opResult.outcome = "rejected"
  /\ gwStaged[opResult.key] = {}

\* C17: a messaging operation whose Gateway call failed rejects, and has issued
\* exactly that one Gateway call.
C17_GatewayFailurePropagates ==
  (opResult.op \in MessagingOps /\ opResult.calls # << >> /\ ~opResult.gwOk)
  => /\ opResult.outcome = "rejected"
     /\ Len(opResult.calls) = 1

\* C17 witness: fromWelcome rejected after its one Gateway call failed.
C17_Witness ==
  /\ opResult.op = "fromWelcome"
  /\ ~opResult.gwOk
  /\ opResult.outcome = "rejected"
  /\ Len(opResult.calls) = 1

\* C15: a group stream's callback is invoked with group G at most once however
\* many Group events the Gateway pushes for G, and a message event for G that
\* reaches the group-message stream (its message not seen on another message
\* category) invokes the message callback, whatever the group stream did.
C15_NewGroupThenMessage ==
  \A a \in Clients, g \in GroupConvs :
    /\ \A l \in LidsOf(a, EvGroup) : CopiesIn(<< l, g.id >>, delivered) <= 1
    /\ \A m \in {x \in Msgs : x.conv = g.id} :
         ( /\ ArrivedAt(a, EvAllGroupMessage, m.id) >= 1
           /\ \A c2 \in MessageEvents \ {EvAllGroupMessage} : ArrivedAt(a, c2, m.id) = 0 )
         => DeliveredTo(a, EvAllGroupMessage, m.id) >= 1

\* C18: callbacks start in the order the Gateway emits the events: when the
\* callback of a listener starts for an event, no run of that listener for an
\* earlier event is still waiting to start, and no two runs of one listener for
\* different events start in the same step.
C18_FifoPerCategory ==
  last.op = "event"
  => \A s \in last.started :
       /\ \A t \in suspended : t.lid = s.lid => t.n > s.n
       /\ \A t \in last.started : t.lid = s.lid => t.n = s.n

\* C18 witness: the second event of a run started the callback of a listener
\* that an earlier event, with another identity, had already invoked.
C18_Witness ==
  /\ last.op = "event"
  /\ \E s \in last.started :
       /\ s.n >= 1
       /\ \E x \in EntityIds \ {s.id} : CopiesIn(<< s.lid, x >>, delivered) >= 1

\* C19: no step removes a key from a client's known map, and a stream started
\* after the cancel of an earlier stream of the same client and category is not
\* delivered an identity that the cancelled stream had delivered.
C19_KnownOnlyGrows ==
  [][ /\ \A a \in Clients : known[a] \subseteq known'[a]
      /\ (last'.op = "event" /\ budget'.events < budget.events)
         => \A l \in last'.invoked :
              \A l0 \in starts[l].after \ active :
                CopiesIn(<< l0, last'.id >>, delivered) = 0 ]_vars

\* C20: a step made for one client (a start, cancel or list of the client, an
\* event pushed for it) leaves every other client's known map, registry and
\* registered listeners as they were, and an event for a client whose key is not
\* in that client's own known map is delivered to a listener of the client,
\* whatever the other clients' maps hold.
C20_IndependentClients ==
  [][ /\ \A a \in Clients :
           (last' # last /\ last'.client # a)
           => /\ known'[a] = known[a]
              /\ subscriptions'[a] = subscriptions[a]
              /\ {l \in active' : starts'[l].client = a} = {l \in active : starts[l].client = a}
      /\ ( /\ last'.op = "event" /\ budget'.events < budget.events
            /\ last'.cat \in FacadeEvents
            /\ ActiveOf(last'.client, last'.cat) # {}
            /\ KeyOfId(last'.cat, last'.id) \notin known[last'.client] )
          => last'.invoked \cap LidsOf(last'.client, last'.cat) # {} ]_vars

\* C20 witness: an event for B invoked B's callback although A's known map
\* already held the entity's key, on a category whose listener checks the map.
C20_Witness ==
  /\ last.op = "event"
  /\ last.client = "B"
  /\ ChecksKnown(last.cat)
  /\ last.invoked # {}
  /\ KeyOfId(last.cat, last.id) \in known["A"]

\* the invocations in flight that an earlier event started
EarlierInFlight == {q \in running : q.n < EventNo - 1}

\* C21: on a category whose listener tests the known map, an event that arrives
\* while the callback of an earlier event with the same identity is still in
\* flight does not invoke the callback: the listener wrote the key before it
\* called the callback, in the same synchronous run as the test.
C21_AtomicCheckAndRecord ==
  (last.op = "event" /\ ChecksKnown(last.cat))
  => \A r \in last.started :
       ~\E q \in EarlierInFlight :
          /\ starts[q.lid].client = starts[r.lid].client
          /\ starts[q.lid].cat = starts[r.lid].cat
          /\ q.id = r.id

\* C21 witness: an event reached a registered listener of its client and was
\* suppressed while that listener's callback for the same identity was in flight.
C21_Witness ==
  /\ last.op = "event"
  /\ ChecksKnown(last.cat)
  /\ last.passed = {}
  /\ \E q \in EarlierInFlight :
       /\ q.lid \in active
       /\ starts[q.lid].client = last.client
       /\ starts[q.lid].cat = last.cat
       /\ q.id = last.id

\* C22: a cancel leaves every callback invocation in flight as it is: none is
\* removed or added by the step, so each still runs to its end.
C22_CancelKeepsInFlight ==
  [][ (IsCancel(last') /\ last' # last) => running' = running ]_vars

\* C22 witness: a callback invocation finished after its listener had been
\* removed by a cancel.
C22_Witness ==
  /\ last.op = "complete"
  /\ last.lid \notin active
  /\ last.lid \in cancelled

\* C24: an event that passes a listener's tests while an earlier callback
\* invocation of that listener is still in flight starts its callback in the
\* step of its dispatch; it does not wait for the earlier invocation.
C24_NotSerialized ==
  last.op = "event"
  => \A l \in last.passed :
       (\E q \in EarlierInFlight : q.lid = l) => l \in last.invoked

\* C24 witness: two callback invocations of one listener are in flight at once.
C24_Witness ==
  \E q1 \in running : \E q2 \in running :
    /\ q1.lid = q2.lid
    /\ q1.n < q2.n
    /\ last.op = "event"
    /\ q2 \in last.started

RequiredFields == {"clientAddress", "id", "createdAt", "version", "topic"}

\* C23: the map encodeToObj returns holds the five fixed fields with the group's
\* values; each optional field is a key of the map exactly when its option is
\* true; lastMessage is a key exactly when its option is true and the group has
\* a message; the map has no other key.
C23_FieldSelection ==
  encoded.done
  => LET o == encoded.obj
         g == encodeArgs.group
         p == encodeArgs.params
     IN  /\ RequiredFields \subseteq DOMAIN o
         /\ o.id = g.id /\ o.topic = g.topic /\ o.version = "GROUP"
         /\ o.createdAt = g.createdAt
         /\ o.clientAddress = AddressOf[encodeArgs.client]
         /\ \A f \in OptionalFields : (f \in DOMAIN o) <=> p[f]
         /\ ("lastMessage" \in DOMAIN o) <=> (p.lastMessage /\ Len(g.messages) >= 1)
         /\ DOMAIN o \subseteq RequiredFields \cup ParamFlags

\* C23 witness: a group without a name and without messages was encoded with the
\* name option off and the lastMessage option on: neither field is in the map.
C23_Witness ==
  /\ encoded.done
  /\ ~encodeArgs.params.name
  /\ encodeArgs.group.name = ""
  /\ encodeArgs.params.lastMessage
  /\ encodeArgs.group.messages = << >>
  /\ encodeArgs.params.consentState
  /\ DOMAIN encoded.obj =
       RequiredFields \cup {f \in OptionalFields : encodeArgs.params[f]}

\* the two streams of conversations that test the known map
CheckedConversationEvents == {EvConversation, EvConversationContainer}

\* C25: an event of stream or streamAll for a group that listGroups has returned
\* to the client, or that the client's streamGroups callback was invoked with,
\* does not invoke the callback.
C25_IdAndTopicSameEntity ==
  ( /\ last.op = "event"
    /\ last.cat \in CheckedConversationEvents
    /\ \/ last.id \in listed[last.client]["listGroups"]
       \/ DeliveredTo(last.client, EvGroup, last.id) >= 1 )
  => last.invoked = {}

\* C26: an event of stream or streamAll for a conversation that a completed
\* listAll of the client has returned does not invoke the callback.
C26_ListAllSuppresses ==
  ( /\ last.op = "event"
    /\ last.cat \in CheckedConversationEvents
    /\ last.id \in listed[last.client]["listAll"] )
  => last.invoked = {}

\* C26 witness: the first event for a conversation on a checked stream, with a
\* registered listener of the client, invoked no callback because listAll had
\* returned the conversation; no other list and no other stream had seen it.
C26_Witness ==
  /\ last.op = "event"
  /\ last.cat \in CheckedConversationEvents
  /\ ActiveOf(last.client, last.cat) # {}
  /\ last.id \in listed[last.client]["listAll"]
  /\ last.id \notin listed[last.client]["listGroups"]
  /\ \A cat \in ConversationEvents :
       ArrivedAt(last.client, cat, last.id) = IF cat = last.cat THEN 1 ELSE 0
  /\ last.invoked = {}

\* the entity class that stands for a version tag
VariantOfVersion(version) ==
  CASE version = "GROUP" -> "Group"
    [] version = "DM" -> "Dm"
    [] OTHER -> "Conversation"

VersionOfId(id) == (CHOOSE c \in Convs : c.id = id).version

\* C27: an event of streamConversations or streamAll that passes the listener's
\* tests (for streamAll: the topic is not yet known, and the listener is the
\* first one registered) invokes that listener's callback exactly once, with an
\* entity of the class of the event's version tag; the step records a key as
\* known only if it invoked a callback.
C27_OneMatchingInvocation ==
  [][ ( /\ last'.op = "event" /\ budget'.events < budget.events
        /\ last'.cat \in {EvConversationV3, EvConversationContainer} )
      => LET a == last'.client
             cat == last'.cat
             id == last'.id
             mine == ActiveOf(a, cat)
             passing ==
               IF cat = EvConversationV3 THEN mine
               ELSE IF KeyOfId(cat, id) \in known[a] \/ mine = {} THEN {}
               ELSE {CHOOSE l \in mine : \A k \in mine : l <= k}
         IN  /\ last'.invoked = passing
             /\ \A l \in passing :
                  CopiesIn(<< l, id >>, delivered') = CopiesIn(<< l, id >>, delivered) + 1
             /\ passing # {} => last'.variant = VariantOfVersion(VersionOfId(id))
             /\ known'[a] # known[a] => last'.invoked # {} ]_vars

\* C29: a facade consent operation never moves a conversation whose consent
\* state at the Gateway is allowed or denied back to unknown: updateConsent sends
\* only the targets allowed and denied, and a consentState fetch changes nothing.
C29_ConsentTransitions ==
  [][ ( /\ budget'.consent < budget.consent
        /\ consentResult'.op \in {"updateConsent", "consentState"} )
      => /\ consentResult'.op = "updateConsent"
            => consentResult'.target \in {"allowed", "denied"}
         /\ consentResult'.op = "consentState" => gwConsent' = gwConsent
         /\ \A k \in ConsentKeys :
              gwConsent[k] \in {"allowed", "denied"} => gwConsent'[k] # "unknown" ]_vars

\* C28: when the mount effect and denyGroup of a GroupListItem have both run to
\* their end, the item displays the consent state the Gateway holds for the
\* group: the value of the fetch that was served last.
C28_NoStaleConsentDisplay ==
  \A g \in UiGroups :
    (ui[g].effect = "done" /\ ui[g].deny = "done")
    => ui[g].shown = gwConsent[<< g.clientInstallationId, g.id >>]

ConvOfMsg(id) == (CHOOSE m \in Msgs : m.id = id).conv

\* C30: a ConversationMessage event invokes the callbacks of exactly the
\* registered Group.streamMessages listeners whose group has the event's
\* installation id and conversation id, each of them once, whether or not the
\* message was delivered before.
C30_OnlyThisGroupsMessages ==
  [][ ( /\ last'.op = "event" /\ budget'.events < budget.events
        /\ last'.cat = EvConversationMessage )
      => LET mine == {l \in active :
                        /\ starts[l].cat = EvConversationMessage
                        /\ starts[l].client = last'.client
                        /\ starts[l].conv = ConvOfMsg(last'.id)}
         IN  /\ last'.invoked = mine
             /\ \A l \in 1..Len(starts) :
                  CopiesIn(<< l, last'.id >>, delivered') =
                    CopiesIn(<< l, last'.id >>, delivered) + (IF l \in mine THEN 1 ELSE 0) ]_vars

\* C30 witness: a message of the group was delivered a second time to the
\* listener of the group it is addressed to, while the registered listener of
\* another installation's group was not invoked.
C30_Witness ==
  /\ last.op = "event"
  /\ last.cat = EvConversationMessage
  /\ \E l \in last.invoked : CopiesIn(<< l, last.id >>, delivered) = 2
  /\ \E l \in active \ last.invoked :
       /\ starts[l].cat = EvConversationMessage
       /\ starts[l].client # last.client

\* C31: no ConversationMessage event invokes the callback of a
\* Group.streamMessages listener whose handle has been called, whether the
\* Gateway has served the handle's unsubscribe call or not.
C31_HandleStopsDelivery ==
  (last.op = "event" /\ last.cat = EvConversationMessage)
  => last.invoked \cap cancelled = {}

\* C31 witness: a message of the group was emitted for the installation while
\* the unsubscribe call of a called handle was still pending, and the handle's
\* listener was not invoked.
C31_Witness ==
  /\ last.op = "event"
  /\ last.cat = EvConversationMessage
  /\ \E p \in unsubPending :
       /\ p.lid \in cancelled
       /\ p.lid \notin last.invoked
       /\ starts[p.lid].client = last.client
       /\ starts[p.lid].conv = ConvOfMsg(last.id)

\* C35: while a Group.streamMessages listener whose own handle has not been
\* called is registered, the Gateway subscription for its group is in force, so
\* every later message of the group is emitted to it, whatever other handles
\* of the group have been called.
C35_OtherStreamKeepsReceiving ==
  \A l \in active \ cancelled :
    starts[l].cat = EvConversationMessage
    => GwSub(SubscribeApi(EvConversationMessage),
             InstallationIdOf[starts[l].client], starts[l].conv) \in gwSubs

\* the Group.streamMessages calls of client a on conversation conv that have
\* subscribed at the Gateway and not yet added their listener
PendingStarts(a, conv) ==
  {g \in Groups : BagIn(g, pending) /\ OwnerOf(g) = a /\ g.id = conv}

\* C34: an event the Gateway emits for a client finds the listener of every
\* start of its category whose subscription is in effect: a listener of the
\* client and category (for ConversationMessage: of the conversation) is
\* registered, and no start of it is still between its subscribe and its
\* addListener.
C34_NoEventLostAtStart ==
  last.op = "event"
  => IF last.cat = EvConversationMessage
     THEN /\ PendingStarts(last.client, ConvOfMsg(last.id)) = {}
          /\ \E l \in active : /\ starts[l].cat = EvConversationMessage
                               /\ starts[l].client = last.client
                               /\ starts[l].conv = ConvOfMsg(last.id)
     ELSE ActiveOf(last.client, last.cat) # {}

\* the plain and the content-type variant of the Gateway call of an operation
PlainApi(op) == IF op = "send" THEN "sendMessage" ELSE "prepareMessage"
TypedApi(op) == IF op = "send" THEN "sendWithContentType" ELSE "prepareMessageWithContentType"

\* C32: a send or prepareMessage whose promise resolved issued exactly one
\* Gateway call: with a content type given, the content-type variant with the
\* content unchanged and the codec of that type; without, the plain variant with
\* a string content wrapped as {text: content} and a structured content unchanged.
C32_OneCallOfTheRightVariant ==
  (opResult.op \in {"send", "prepareMessage"} /\ opResult.outcome = "resolved")
  => /\ Len(opResult.calls) = 1
     /\ LET call == opResult.calls[1]
        IN  /\ call.who = opResult.key[1] /\ call.conv = opResult.key[2]
            /\ IF opResult.contentType # "none"
               THEN /\ call.api = TypedApi(opResult.op)
                    /\ call.content = opResult.content
                    /\ call.codec = opResult.contentType
               ELSE /\ call.api = PlainApi(opResult.op)
                    /\ call.codec = "none"
                    /\ call.content =
                         IF opResult.content.kind = "string"
                         THEN [kind |-> "object", text |-> opResult.content.text]
                         ELSE opResult.content

\* C32 witness: a prepareMessage with a content type and a string content
\* resolved after the content-type call, the string passed as it was.
C32_Witness ==
  /\ opResult.op = "prepareMessage"
  /\ opResult.outcome = "resolved"
  /\ opResult.contentType # "none"
  /\ opResult.content.kind = "string"
  /\ opResult.calls[1].api = "prepareMessageWithContentType"
  /\ opResult.calls[1].content.kind = "string"

\* C33: the options conversationParamsFromJson returns hold, for every option
\* key the JSON object has, the boolean given there, and for every other key the
\* default: true, and false for lastMessage; the empty string gives the defaults
\* of every key, as the empty object does.
C33_ParamDefaults ==
  parsed.done
  => /\ \A f \in ParamFlags :
          parsed.params[f] =
            IF jsonArg.kind = "object" /\ f \in DOMAIN jsonArg.obj
            THEN jsonArg.obj[f]
            ELSE (f # "lastMessage")
     /\ jsonArg.kind = "empty"
        => parsed.params =
             conversationParamsFromJson([kind |-> "object", obj |-> [k \in {} |-> TRUE]])

\* C33 witness: an object that turns name off and lastMessage on and names no
\* other key was parsed.
C33_Witness ==
  /\ parsed.done
  /\ jsonArg.kind = "object"
  /\ DOMAIN jsonArg.obj = {"name", "lastMessage"}
  /\ ~jsonArg.obj["name"] /\ jsonArg.obj["lastMessage"]
  /\ ~parsed.params["name"] /\ parsed.params["lastMessage"]
  /\ parsed.params["isActive"]

====
